---- MODULE Spec2Model ----
(***************************************************************************)
(* BloomFilterService (src/lib/bloom-filter.service.ts): a NestJS service  *)
(* that forwards typed calls to the RedisBloom commands through one        *)
(* ioredis client, and maps each reply or rejection to a result or a typed *)
(* exception.                                                              *)
(*                                                                         *)
(* The remote store and the transport are the environment: every reply and *)
(* every rejection message is chosen nondeterministically.                 *)
(***************************************************************************)
EXTENDS Integers, Sequences, FiniteSets, TLC

(***************************************************************************)
(* JavaScript values. Every value carries its type, so that === (equal type*)
(* and equal value) is equality of the tagged values: Num(1) # Str("1").   *)
(* A number is the fraction n/d, d a power of ten (0.01 is Frac(1, 100)).  *)
(***************************************************************************)
Undefined == [t |-> "undefined"]
Null == [t |-> "null"]
Frac(n, d) == [t |-> "number", n |-> n, d |-> d]
Num(n) == Frac(n, 1)
Str(s) == [t |-> "string", s |-> s]
Bool(b) == [t |-> "boolean", b |-> b]
Arr(items) == [t |-> "array", items |-> items]
Buf(bytes) == [t |-> "Buffer", bytes |-> bytes]
Obj(props) == [t |-> "object", props |-> props]

\* if (v): undefined, null, 0, "" and false are falsy, every other value truthy
Truthy(v) ==
  CASE v.t = "undefined" -> FALSE
    [] v.t = "null" -> FALSE
    [] v.t = "number" -> v.n # 0
    [] v.t = "string" -> v.s # ""
    [] v.t = "boolean" -> v.b
    [] OTHER -> TRUE

\* String.prototype.indexOf: the 0-based position of the first occurrence, or -1
indexOf(s, searchString) ==
  LET hits == {i \in 0..(Len(s) - Len(searchString)) :
                 SubSeq(s, i + 1, i + Len(searchString)) = searchString}
  IN IF hits = {} THEN -1 ELSE CHOOSE i \in hits : \A j \in hits : i <= j

Digit(k) == SubSeq("0123456789", k + 1, k + 1)

RECURSIVE NatToString(_)
NatToString(k) == IF k < 10 THEN Digit(k) ELSE NatToString(k \div 10) \o Digit(k % 10)

RECURSIVE FractionDigits(_, _)
FractionDigits(r, d) ==
  IF r = 0 THEN "" ELSE Digit((r * 10) \div d) \o FractionDigits((r * 10) % d, d)

\* String(x) of a number x >= 0 with a terminating decimal expansion
NumberToString(x) ==
  IF x.n % x.d = 0 THEN NatToString(x.n \div x.d)
  ELSE NatToString(x.n \div x.d) \o "." \o FractionDigits(x.n % x.d, x.d)

\* String(v) of a number or a string
String(v) == IF v.t = "string" THEN v.s
             ELSE IF v.n < 0 THEN "-" \o NumberToString(Frac(0 - v.n, v.d))
             ELSE NumberToString(v)

\* Array.prototype.join of an array of strings
RECURSIVE join(_, _)
join(items, sep) ==
  IF Len(items) = 0 THEN ""
  ELSE IF Len(items) = 1 THEN items[1]
  ELSE items[1] \o sep \o join(Tail(items), sep)

\* the outcome of a call: the value the promise resolves to, or the exception
\* it rejects with
Return(v) == [kind |-> "return", value |-> v]
Throw(e) == [kind |-> "throw", error |-> e]

\* what the transport answers a request with
Resolved(v) == [kind |-> "resolved", value |-> v]
Rejected(err) == [kind |-> "rejected", err |-> err]

(***************************************************************************)
(* The exceptions.                                                         *)
(***************************************************************************)
NonScalingFilterIsFull(key) ==
  [name |-> "NonScalingFilterIsFull",
   message |-> "Non-scaling filter [" \o key \o "] is reached max capacity"]

FilterAlreadyExists(key) ==
  [name |-> "FilterAlreadyExists",
   message |-> "Filter key [" \o key \o "] already exists"]

BloomFilterUnknownException(err) ==
  [name |-> "BloomFilterUnknownException", message |-> err]

BloomFilterInstallationException(message) ==
  [name |-> "BloomFilterInstallationException", message |-> message]

\* the TypeError of Buffer.from(null)
BufferFromTypeError ==
  "TypeError: The first argument must be of type string or an instance of Buffer"

(***************************************************************************)
(* Bounds of the model and the inputs drawn within them.                   *)
(***************************************************************************)
MaxExpansion == 2
MaxItems == 2
MaxIterator == 1

Callers == {"c1"}
Keys == {"users", "orders"}
AllItems == <<"a", "b", "c", "d">>
Items == {AllItems[i] : i \in 1..MaxItems}
ItemLists == {SubSeq(AllItems, 1, n) : n \in 0..MaxItems}
ErrorRates == {Frac(1, 100)}
Capacities == {Num(1000)}
Expansions == {Undefined} \cup {Num(e) : e \in -1..MaxExpansion}
Iterators == {Num(i) : i \in 0..MaxIterator}

\* messages a rejected request carries
FULL == "non scaling filter is full"
EXISTS == "item exists"
Failures ==
  {"ERR " \o FULL, FULL, "ERR " \o EXISTS, EXISTS,
   "WRONGTYPE Operation against a key holding the wrong kind of value"}

(***************************************************************************)
(* State.                                                                  *)
(*   options  the value injected as BLOOM_FILTER_OPTIONS                   *)
(*   service  "unconstructed", "ready" or "failed" (the constructor threw) *)
(*   config   this.config of the constructed service                       *)
(*   built    the clients built with new Redis(...), in order              *)
(*   thrown   what the constructor threw, Undefined when it did not        *)
(*   calls    per caller, the call in progress                             *)
(***************************************************************************)
VARIABLES options, service, config, built, thrown, calls

vars == <<options, service, config, built, thrown, calls>>

DEFAULT_PORT == 6379
DEFAULT_EXPANSION == 2

InjectedClient == [t |-> "Redis", id |-> "injected"]

Connections ==
  {[t |-> "object", host |-> Undefined, port |-> Undefined],
   [t |-> "object", host |-> Str("10.0.0.5"), port |-> Num(6380)]}

OptionValues ==
  {[client |-> Undefined, connection |-> Undefined],
   [client |-> InjectedClient, connection |-> Undefined],
   [client |-> InjectedClient,
    connection |-> [t |-> "object", host |-> Undefined, port |-> Undefined]]}
  \cup {[client |-> Undefined, connection |-> c] : c \in Connections}

Idle == [pc |-> "idle"]

Init ==
  /\ options \in OptionValues
  /\ service = "unconstructed"
  /\ config = options
  /\ built = <<>>
  /\ thrown = Undefined
  /\ calls = [c \in Callers |-> Idle]

\* a || b
Or(a, b) == IF Truthy(a) THEN a ELSE b

\* new Redis({host, port, ...}): the n-th client built by the service
NewRedis(n, host, port) == [t |-> "Redis", id |-> "built", n |-> n, host |-> host, port |-> port]

\* without the check of line 23, reading this.config.connection.host of an
\* undefined connection throws a TypeError
ConstructorThrows_NoCheck ==
  /\ service = "unconstructed"
  /\ ~Truthy(config.client) /\ ~Truthy(config.connection)
  /\ service' = "failed"
  /\ thrown' = [name |-> "TypeError",
                message |-> "Cannot read properties of undefined (reading 'host')"]
  /\ UNCHANGED <<options, config, built, calls>>

ConstructorThrows ==
  /\ service = "unconstructed"
  /\ ~Truthy(config.client) /\ ~Truthy(config.connection)
  /\ service' = "failed"
  /\ thrown' = BloomFilterInstallationException(
                  "Connection config or client must defined in options")
  /\ UNCHANGED <<options, config, built, calls>>

\* host and port passed on as configured, without their defaults
ConstructorBuildsClient_NoDefaults ==
  /\ service = "unconstructed"
  /\ ~(~Truthy(config.client) /\ ~Truthy(config.connection))
  /\ ~Truthy(config.client)
  /\ LET client == NewRedis(Len(built) + 1, config.connection.host,
                            config.connection.port)
     IN /\ config' = [config EXCEPT !.client = client]
        /\ built' = Append(built, client)
  /\ service' = "ready"
  /\ UNCHANGED <<options, thrown, calls>>

ConstructorBuildsClient ==
  /\ service = "unconstructed"
  /\ ~(~Truthy(config.client) /\ ~Truthy(config.connection))
  /\ ~Truthy(config.client)
  /\ LET client == NewRedis(Len(built) + 1,
                            Or(config.connection.host, Str("127.0.0.1")),
                            Or(config.connection.port, Num(DEFAULT_PORT)))
     IN /\ config' = [config EXCEPT !.client = client]
        /\ built' = Append(built, client)
  /\ service' = "ready"
  /\ UNCHANGED <<options, thrown, calls>>

ConstructorKeepsClient ==
  /\ service = "unconstructed"
  /\ Truthy(config.client)
  /\ service' = "ready"
  /\ UNCHANGED <<options, config, built, thrown, calls>>

getClient == config.client

\* this.getClient().call(command, args): the request as issued
Request(command, args) == [client |-> getClient, command |-> command, args |-> args]

\* a caller starts operation op with parameters params; the handler runs up to
\* its request and suspends
\* a lock around the request: a call waits until no other call is in flight
Issue_Serialized(c, op, params, request) ==
  /\ service = "ready"
  /\ calls[c].pc = "idle"
  /\ \A other \in DOMAIN calls : calls[other].pc # "pending"
  /\ calls' = [calls EXCEPT ![c] =
       [pc |-> "pending", op |-> op, params |-> params, sent |-> <<request>>]]
  /\ UNCHANGED <<options, service, config, built, thrown>>

Issue(c, op, params, request) ==
  /\ service = "ready"
  /\ calls[c].pc = "idle"
  /\ calls' = [calls EXCEPT ![c] =
       [pc |-> "pending", op |-> op, params |-> params, sent |-> <<request>>]]
  /\ UNCHANGED <<options, service, config, built, thrown>>

(***************************************************************************)
(* isConnected                                                             *)
(***************************************************************************)
\* this.config.client.ping()
isConnectedRequest == [client |-> config.client, command |-> "PING", args |-> <<>>]

isConnectedThen(response) == Return(Bool(response = Str("PONG")))

\* no catch handler: the await throws the failure as it came
isConnectedCatch(err) == Throw([name |-> "rejection", message |-> err])

isConnected(c) == Issue(c, "isConnected", [command |-> "PING"], isConnectedRequest)

(***************************************************************************)
(* add                                                                     *)
(***************************************************************************)
addArgs(key, item) == <<Str(key), Str(item)>>

addThen(response) == Return(Bool(response = Num(1)))

addCatch(key, err) ==
  IF indexOf(err, "non scaling filter is full") # 0
  THEN Throw(NonScalingFilterIsFull(key))
  ELSE Throw(BloomFilterUnknownException(err))

add(c) ==
  \E key \in Keys, item \in Items :
    Issue(c, "add", [key |-> key, item |-> item], Request("BF.ADD", addArgs(key, item)))

(***************************************************************************)
(* reserve                                                                 *)
(***************************************************************************)
\* the parameter default: expansion: number = 2
expansionOrDefault(expansion) ==
  IF expansion = Undefined THEN Num(DEFAULT_EXPANSION) ELSE expansion

nonScaling(expansion) == expansion.n > 0

reserveArgs(key, errorRate, capacity, expansionArg) ==
  LET expansion == expansionOrDefault(expansionArg)
      base == <<Str(key), errorRate, capacity>>
  IN IF ~nonScaling(expansion)
     THEN base \o <<Str("EXPANSION"), expansion>>
     ELSE base \o <<Str("NONSCALING")>>

reserveThen(response) == Return(Bool(response = Str("OK")))

reserveCatch(key, err) ==
  IF indexOf(err, "item exists") # 0
  THEN Throw(FilterAlreadyExists(key))
  ELSE Throw(BloomFilterUnknownException(err))

reserve(c) ==
  \E key \in Keys, errorRate \in ErrorRates, capacity \in Capacities,
     expansion \in Expansions :
    Issue(c, "reserve",
          [key |-> key, errorRate |-> errorRate, capacity |-> capacity,
           expansion |-> expansion],
          Request("BF.RESERVE", reserveArgs(key, errorRate, capacity, expansion)))

(***************************************************************************)
(* card                                                                    *)
(***************************************************************************)
cardArgs(key) == <<Str(key)>>

cardThen(response) == Return(response)

\* a catch handler that returns the failure instead of raising it
cardCatch_ReturnsFailure(err) == Return(Str(err))

cardCatch(err) == Throw(BloomFilterUnknownException(err))

card(c) ==
  \E key \in Keys :
    Issue(c, "card", [key |-> key], Request("BF.CARD", cardArgs(key)))

(***************************************************************************)
(* exists                                                                  *)
(***************************************************************************)
existsArgs(key, item) == <<Str(key), Str(item)>>

\* the comparison of add, used in exists
existsThen_Numeric(response) == Return(Bool(response = Num(1)))

existsThen(response) == Return(Bool(response = Str("1")))

existsCatch(err) == Throw(BloomFilterUnknownException(err))

exists(c) ==
  \E key \in Keys, item \in Items :
    Issue(c, "exists", [key |-> key, item |-> item],
          Request("BF.EXISTS", existsArgs(key, item)))

(***************************************************************************)
(* info                                                                    *)
(***************************************************************************)
\* the own properties of INFO_KEY_REPLACE, as <<raw label, normalized name>>
INFO_KEY_REPLACE ==
  {<<"Capacity", "CAPACITY">>,
   <<"Size", "SIZE">>,
   <<"Number of filters", "NUMBER_OF_FILTERS">>,
   <<"Number of items inserted", "NUMBER_OF_ITEMS">>,
   <<"Expansion rate", "EXPANSION_RATE">>}

\* no normalization of the label
infoKey_Raw(aKey) == aKey

\* this.INFO_KEY_REPLACE[aKey] || aKey
infoKey(aKey) ==
  IF \E p \in INFO_KEY_REPLACE : p[1] = aKey
  THEN (CHOOSE p \in INFO_KEY_REPLACE : p[1] = aKey)[2]
  ELSE aKey

\* array[i] with a 0-based index: undefined past the end
At(items, i) == IF i < Len(items) THEN items[i + 1] ELSE Undefined

\* aVal ?? 0
infoVal(aVal) == IF aVal = Null \/ aVal = Undefined THEN Num(0) ELSE aVal

\* response[k] = v on the properties of an object, a set of <<name, value>>
SetProp(props, k, v) == {p \in props : p[1] # k} \cup {<<k, v>>}

\* for (let i = 0; i < result.length; i += 2) response[...] = ...
RECURSIVE infoLoop(_, _, _)
infoLoop(result, i, response) ==
  IF ~(i < Len(result)) THEN response
  ELSE infoLoop(result, i + 2,
                SetProp(response, infoKey(At(result, i).s), infoVal(At(result, i + 1))))

infoArgs(key, attribute) ==
  IF Truthy(attribute) THEN <<Str(key), attribute>> ELSE <<Str(key)>>

infoThen(attribute, result) ==
  IF Truthy(attribute) THEN Return(result)
  ELSE Return(Obj(infoLoop(result.items, 0, {})))

infoCatch(err) == Throw(BloomFilterUnknownException(err))

InfoAttributes == {Undefined, Str("CAPACITY"), Str("ITEMS")}

info(c) ==
  \E key \in Keys, attribute \in InfoAttributes :
    Issue(c, "info", [key |-> key, attribute |-> attribute],
          Request("BF.INFO", infoArgs(key, attribute)))

(***************************************************************************)
(* insert                                                                  *)
(***************************************************************************)
\* the items passed as separate arguments, as mAdd passes them
insertArgs_ItemsSpread(key, items, capacity, errorRate, expansion, flags) ==
  <<Str(key)>>
  \o (IF Truthy(capacity) THEN <<Str("CAPACITY"), Str(String(capacity))>> ELSE <<>>)
  \o (IF Truthy(errorRate) THEN <<Str("ERROR"), Str(String(errorRate))>> ELSE <<>>)
  \o (IF Truthy(expansion) THEN <<Str("EXPANSION"), Str(String(expansion))>> ELSE <<>>)
  \o (IF Truthy(flags) THEN <<Str(join(flags.items, " "))>> ELSE <<>>)
  \o (IF Truthy(items) THEN <<Str("ITEMS")>> \o [i \in DOMAIN items.items |-> Str(items.items[i])]
      ELSE <<>>)

insertArgs(key, items, capacity, errorRate, expansion, flags) ==
  <<Str(key)>>
  \o (IF Truthy(capacity) THEN <<Str("CAPACITY"), Str(String(capacity))>> ELSE <<>>)
  \o (IF Truthy(errorRate) THEN <<Str("ERROR"), Str(String(errorRate))>> ELSE <<>>)
  \o (IF Truthy(expansion) THEN <<Str("EXPANSION"), Str(String(expansion))>> ELSE <<>>)
  \o (IF Truthy(flags) THEN <<Str(join(flags.items, " "))>> ELSE <<>>)
  \o (IF Truthy(items) THEN <<Str("ITEMS"), Str(join(items.items, " "))>> ELSE <<>>)

insertThen(response) == Return(response)

insertCatch(err) == Throw(BloomFilterUnknownException(err))

InsertFlags ==
  {Undefined, Arr(<<>>), Arr(<<"NOCREATE">>), Arr(<<"NOCREATE", "NONSCALING">>)}

\* the optional parameters of insert, as callers combine them
InsertOptions ==
  {[capacity |-> cap, errorRate |-> er, expansion |-> ex, flags |-> fl] :
     cap \in {Undefined, Num(500)}, er \in {Undefined, Frac(1, 100)},
     ex \in {Undefined, Num(0), Num(MaxExpansion)}, fl \in InsertFlags}

insert(c) ==
  \E key \in Keys, items \in ItemLists, o \in InsertOptions :
    Issue(c, "insert",
          [key |-> key, items |-> Arr(items), capacity |-> o.capacity,
           errorRate |-> o.errorRate, expansion |-> o.expansion, flags |-> o.flags],
          Request("BF.INSERT",
                  insertArgs(key, Arr(items), o.capacity, o.errorRate, o.expansion,
                             o.flags)))

(***************************************************************************)
(* loadChunk                                                               *)
(***************************************************************************)
loadChunkArgs(key, iterator, data) == <<Str(key), iterator, data>>

loadChunkThen(response) == Return(Bool(response = Str("OK")))

loadChunkCatch(err) == Throw(BloomFilterUnknownException(err))

Chunks == {Buf("chunk")}

loadChunk(c) ==
  \E key \in Keys, iterator \in Iterators, data \in Chunks :
    Issue(c, "loadChunk", [key |-> key, iterator |-> iterator, data |-> data],
          Request("BF.LOADCHUNK", loadChunkArgs(key, iterator, data)))

(***************************************************************************)
(* mAdd, mExists                                                           *)
(***************************************************************************)
\* the items in reverse order
Spread_Reversed(key, items) ==
  <<Str(key)>> \o [i \in DOMAIN items |-> Str(items[Len(items) + 1 - i])]

\* [key, ...items]
Spread(key, items) == <<Str(key)>> \o [i \in DOMAIN items |-> Str(items[i])]

mAddArgs(key, items) == Spread(key, items)

mAddThen(response) == Return(response)

mAddCatch(err) == Throw(BloomFilterUnknownException(err))

mAdd(c) ==
  \E key \in Keys, items \in ItemLists :
    Issue(c, "mAdd", [key |-> key, items |-> Arr(items)],
          Request("BF.MADD", mAddArgs(key, items)))

mExistsArgs(key, items) == Spread(key, items)

mExistsThen(response) == Return(response)

mExistsCatch(err) == Throw(BloomFilterUnknownException(err))

mExists(c) ==
  \E key \in Keys, items \in ItemLists :
    Issue(c, "mExists", [key |-> key, items |-> Arr(items)],
          Request("BF.MEXISTS", mExistsArgs(key, items)))

(***************************************************************************)
(* scanDump                                                                *)
(***************************************************************************)
\* .call('BF.SCANDUMP', iterator)
scanDumpArgs(key, iterator) == <<iterator>>

\* Buffer.from(v) accepts a string (or a buffer) and throws a TypeError on
\* null, undefined and numbers
BufferFromThrows(v) == v.t \notin {"string", "Buffer"}

BufferFrom(v) == IF v.t = "string" THEN Buf(v.s) ELSE v

\* .then(...).catch(...): what the then handler throws reaches the catch handler
scanDumpCatch(err) == Throw(BloomFilterUnknownException(err))

scanDumpThen(response) ==
  IF BufferFromThrows(At(response.items, 1))
  THEN scanDumpCatch(BufferFromTypeError)
  ELSE Return(Arr(<<At(response.items, 0), BufferFrom(At(response.items, 1))>>))

scanDump(c) ==
  \E key \in Keys, iterator \in Iterators :
    Issue(c, "scanDump", [key |-> key, iterator |-> iterator],
          Request("BF.SCANDUMP", scanDumpArgs(key, iterator)))

(***************************************************************************)
(* The remote store: what a request may be answered with.                  *)
(***************************************************************************)
FullInfo ==
  <<Str("Capacity"), Num(1000), Str("Size"), Num(1528),
    Str("Number of filters"), Num(1), Str("Number of items inserted"), Num(3),
    Str("Expansion rate"), Num(2)>>

InfoReplies ==
  {Arr(FullInfo),
   Arr([FullInfo EXCEPT ![10] = Null]),
   Arr(<<Str("Capacity"), Num(1000), Str("Max scaling"), Num(7)>>),
   Arr(<<Str("Size"), Num(1528), Str("Expansion rate")>>),
   Arr(<<>>)}

\* one integer per item
ItemReplies(n) ==
  {Arr([i \in 1..n |-> Num(1)]), Arr([i \in 1..n |-> Num(IF i = 1 THEN 0 ELSE 1)])}

Replies(call) ==
  CASE call.op \in {"add", "exists"} -> {Num(1), Num(0), Str("1"), Str("0")}
    [] call.op = "card" -> {Num(0), Num(3)}
    [] call.op = "info" ->
         IF Truthy(call.params.attribute) THEN {Num(1000)} ELSE InfoReplies
    [] call.op \in {"insert", "mAdd", "mExists"} ->
         ItemReplies(Len(call.params.items.items))
    [] call.op \in {"loadChunk", "reserve"} -> {Str("OK"), Str("QUEUED")}
    [] call.op = "scanDump" ->
         {Arr(<<Num(1), Str("chunk")>>), Arr(<<Num(0), Null>>), Arr(<<Num(0), Str("")>>)}
    [] call.op = "isConnected" -> {Str("PONG"), Str("LOADING")}

\* the handler's continuation on the reply
OnResolved(call, response) ==
  CASE call.op = "add" -> addThen(response)
    [] call.op = "card" -> cardThen(response)
    [] call.op = "exists" -> existsThen(response)
    [] call.op = "info" -> infoThen(call.params.attribute, response)
    [] call.op = "insert" -> insertThen(response)
    [] call.op = "loadChunk" -> loadChunkThen(response)
    [] call.op = "mAdd" -> mAddThen(response)
    [] call.op = "mExists" -> mExistsThen(response)
    [] call.op = "reserve" -> reserveThen(response)
    [] call.op = "scanDump" -> scanDumpThen(response)
    [] call.op = "isConnected" -> isConnectedThen(response)

\* the handler's continuation on the rejection
OnRejected(call, err) ==
  CASE call.op = "add" -> addCatch(call.params.key, err)
    [] call.op = "card" -> cardCatch(err)
    [] call.op = "exists" -> existsCatch(err)
    [] call.op = "info" -> infoCatch(err)
    [] call.op = "insert" -> insertCatch(err)
    [] call.op = "loadChunk" -> loadChunkCatch(err)
    [] call.op = "mAdd" -> mAddCatch(err)
    [] call.op = "mExists" -> mExistsCatch(err)
    [] call.op = "reserve" -> reserveCatch(call.params.key, err)
    [] call.op = "scanDump" -> scanDumpCatch(err)
    [] call.op = "isConnected" -> isConnectedCatch(err)

\* a failed request issued a second time before the call ends
Settle_Retries(c, reply, outcome) ==
  /\ calls[c].pc = "pending"
  /\ calls' = [calls EXCEPT ![c] =
       [pc |-> "done", op |-> calls[c].op, params |-> calls[c].params,
        sent |-> IF reply.kind = "rejected" THEN calls[c].sent \o calls[c].sent
                 ELSE calls[c].sent,
        reply |-> reply, outcome |-> outcome]]
  /\ UNCHANGED <<options, service, config, built, thrown>>

Settle(c, reply, outcome) ==
  /\ calls[c].pc = "pending"
  /\ calls' = [calls EXCEPT ![c] =
       [pc |-> "done", op |-> calls[c].op, params |-> calls[c].params,
        sent |-> calls[c].sent, reply |-> reply, outcome |-> outcome]]
  /\ UNCHANGED <<options, service, config, built, thrown>>

\* the request succeeds and the call resumes with the reply
Resolve(c) ==
  /\ calls[c].pc = "pending"
  /\ \E response \in Replies(calls[c]) :
       Settle(c, Resolved(response), OnResolved(calls[c], response))

\* the request fails and the call resumes with the failure
Reject(c) ==
  /\ calls[c].pc = "pending"
  /\ \E err \in Failures : Settle(c, Rejected(err), OnRejected(calls[c], err))

\* the caller takes the outcome and may call again
Finish(c) ==
  /\ calls[c].pc = "done"
  /\ calls' = [calls EXCEPT ![c] = Idle]
  /\ UNCHANGED <<options, service, config, built, thrown>>

Next ==
  \/ ConstructorThrows
  \/ ConstructorBuildsClient
  \/ ConstructorKeepsClient
  \/ \E c \in Callers :
       \/ add(c)
       \/ card(c)
       \/ exists(c)
       \/ info(c)
       \/ insert(c)
       \/ loadChunk(c)
       \/ mAdd(c)
       \/ mExists(c)
       \/ reserve(c)
       \/ scanDump(c)
       \/ isConnected(c)
       \/ Resolve(c)
       \/ Reject(c)
       \/ Finish(c)

Spec == Init /\ [][Next]_vars

(***************************************************************************)
(* Several callers on one service instance, their calls in flight at once. *)
(* The service is given its client; the calls take their parameters, and    *)
(* the remote store its answers, from narrower sets.                       *)
(***************************************************************************)
ConcurrentCallers == {"c1", "c2"}

NarrowParams(call) ==
  CASE call.op \in {"add", "exists"} -> call.params.item = "a"
    [] call.op = "info" -> call.params.attribute \in {Undefined, Str("CAPACITY")}
    [] call.op = "insert" ->
         /\ call.params.items = Arr(<<"a", "b">>)
         /\ call.params.capacity \in {Undefined, Num(500)}
         /\ call.params.errorRate = Undefined
         /\ call.params.expansion = Undefined
         /\ call.params.flags = Undefined
    [] call.op \in {"loadChunk", "scanDump"} -> call.params.iterator = Num(0)
    [] call.op \in {"mAdd", "mExists"} -> call.params.items = Arr(<<"a", "b">>)
    [] call.op = "reserve" -> call.params.expansion \in {Undefined, Num(0)}
    [] OTHER -> TRUE

NarrowReply(call) ==
  IF call.reply.kind = "rejected"
  THEN call.reply.err \in {"ERR " \o FULL, "ERR " \o EXISTS}
  ELSE CASE call.op \in {"add", "exists"} -> call.reply.value \in {Num(1), Str("1")}
         [] call.op = "info" /\ call.params.attribute = Undefined ->
              call.reply.value \in {Arr(FullInfo), Arr([FullInfo EXCEPT ![10] = Null])}
         [] OTHER -> TRUE

NarrowInputs ==
  \A c \in DOMAIN calls :
    /\ calls[c].pc # "idle" => NarrowParams(calls[c])
    /\ calls[c].pc = "done" => NarrowReply(calls[c])

InitConcurrent ==
  /\ options = [client |-> InjectedClient, connection |-> Undefined]
  /\ service = "unconstructed"
  /\ config = options
  /\ built = <<>>
  /\ thrown = Undefined
  /\ calls = [c \in ConcurrentCallers |-> Idle]

NextConcurrent ==
  \/ ConstructorKeepsClient
  \/ \E c \in ConcurrentCallers : add(c) /\ NarrowInputs'
  \/ \E c \in ConcurrentCallers : card(c) /\ NarrowInputs'
  \/ \E c \in ConcurrentCallers : exists(c) /\ NarrowInputs'
  \/ \E c \in ConcurrentCallers : info(c) /\ NarrowInputs'
  \/ \E c \in ConcurrentCallers : insert(c) /\ NarrowInputs'
  \/ \E c \in ConcurrentCallers : loadChunk(c) /\ NarrowInputs'
  \/ \E c \in ConcurrentCallers : mAdd(c) /\ NarrowInputs'
  \/ \E c \in ConcurrentCallers : mExists(c) /\ NarrowInputs'
  \/ \E c \in ConcurrentCallers : reserve(c) /\ NarrowInputs'
  \/ \E c \in ConcurrentCallers : scanDump(c) /\ NarrowInputs'
  \/ \E c \in ConcurrentCallers : isConnected(c) /\ NarrowInputs'
  \/ \E c \in ConcurrentCallers : Resolve(c) /\ NarrowInputs'
  \/ \E c \in ConcurrentCallers : Reject(c) /\ NarrowInputs'
  \/ \E c \in ConcurrentCallers : Finish(c) /\ NarrowInputs'

SpecConcurrent == InitConcurrent /\ [][NextConcurrent]_vars

(***************************************************************************)
(* Properties.                                                             *)
(***************************************************************************)
Issued(c, op) == calls[c].pc \in {"pending", "done"} /\ calls[c].op = op
Succeeded(c, op) ==
  calls[c].pc = "done" /\ calls[c].op = op /\ calls[c].reply.kind = "resolved"
Failed(c, op) ==
  calls[c].pc = "done" /\ calls[c].op = op /\ calls[c].reply.kind = "rejected"

\* the one request of a call
RequestOf(c) == calls[c].sent[1]

\* s contains the substring pat
Contains(s, pat) ==
  \E i \in 1..(Len(s) - Len(pat) + 1) : SubSeq(s, i, i + Len(pat) - 1) = pat

\* C1: for every key, errorRate, capacity and every expansion <= 0, reserve issues
\* BF.RESERVE with the arguments [key, errorRate, capacity, "NONSCALING"]
C1_NonPositiveExpansionIsNonScaling ==
  \A c \in Callers :
    (Issued(c, "reserve") /\ calls[c].params.expansion # Undefined
       /\ calls[c].params.expansion.n <= 0)
    => /\ Len(calls[c].sent) = 1
       /\ RequestOf(c).command = "BF.RESERVE"
       /\ RequestOf(c).args =
            <<Str(calls[c].params.key), calls[c].params.errorRate,
              calls[c].params.capacity, Str("NONSCALING")>>

\* C2: for every expansion > 0, the default 2 of an omitted expansion included,
\* reserve issues BF.RESERVE with the arguments
\* [key, errorRate, capacity, "EXPANSION", expansion]
C2_PositiveExpansionIsScaling ==
  \A c \in Callers :
    LET expansion == IF calls[c].params.expansion = Undefined
                     THEN Num(2) ELSE calls[c].params.expansion
    IN (Issued(c, "reserve") /\ expansion.n > 0)
       => /\ Len(calls[c].sent) = 1
          /\ RequestOf(c).command = "BF.RESERVE"
          /\ RequestOf(c).args =
               <<Str(calls[c].params.key), calls[c].params.errorRate,
                 calls[c].params.capacity, Str("EXPANSION"), expansion>>

\* C3: when BF.ADD fails, add raises NonScalingFilterIsFull if and only if the
\* failure message contains 'non scaling filter is full', and for every other
\* message BloomFilterUnknownException carrying the message
C3_AddFullIffMessageSaysFull ==
  \A c \in Callers :
    Failed(c, "add") =>
      /\ calls[c].outcome.kind = "throw"
      /\ IF Contains(calls[c].reply.err, "non scaling filter is full")
         THEN calls[c].outcome.error.name = "NonScalingFilterIsFull"
         ELSE /\ calls[c].outcome.error.name = "BloomFilterUnknownException"
              /\ calls[c].outcome.error.message = calls[c].reply.err

\* C4: when BF.RESERVE fails, reserve raises FilterAlreadyExists if and only if
\* the failure message contains 'item exists', and for every other message
\* BloomFilterUnknownException carrying the message
C4_ReserveExistsIffMessageSaysExists ==
  \A c \in Callers :
    Failed(c, "reserve") =>
      /\ calls[c].outcome.kind = "throw"
      /\ IF Contains(calls[c].reply.err, "item exists")
         THEN calls[c].outcome.error.name = "FilterAlreadyExists"
         ELSE /\ calls[c].outcome.error.name = "BloomFilterUnknownException"
              /\ calls[c].outcome.error.message = calls[c].reply.err

Operations ==
  {"add", "card", "exists", "info", "insert", "loadChunk", "mAdd", "mExists",
   "reserve", "scanDump"}

\* C5: whatever the operation, a failed request ends the call with one error,
\* which is FilterAlreadyExists, NonScalingFilterIsFull or
\* BloomFilterUnknownException: never a value, never another kind of error
C5_FailureIsRaisedAsTypedError ==
  \A c \in Callers :
    (calls[c].pc = "done" /\ calls[c].op \in Operations
       /\ calls[c].reply.kind = "rejected")
    => /\ calls[c].outcome.kind = "throw"
       /\ calls[c].outcome.error.name \in
            {"FilterAlreadyExists", "NonScalingFilterIsFull",
             "BloomFilterUnknownException"}

\* a failed BF.CARD has ended card with BloomFilterUnknownException
C5_Witness ==
  \E c \in Callers :
    /\ Failed(c, "card")
    /\ calls[c].outcome.kind = "throw"
    /\ calls[c].outcome.error.name = "BloomFilterUnknownException"

\* C6: add returns true exactly when the BF.ADD reply is 1, as the number 1 or
\* as the string "1", and false for every other reply
C6_AddTrueOnNumericOrStringOne ==
  \A c \in Callers :
    Succeeded(c, "add") =>
      calls[c].outcome =
        Return(Bool(calls[c].reply.value \in {Num(1), Str("1")}))

\* C7: exists returns true exactly when the BF.EXISTS reply is the string "1",
\* and false for every other reply, the number 1 included
C7_ExistsTrueOnStringOneOnly ==
  \A c \in Callers :
    Succeeded(c, "exists") =>
      /\ calls[c].outcome.kind = "return"
      /\ calls[c].outcome.value.t = "boolean"
      /\ calls[c].outcome.value.b <=>
           (calls[c].reply.value.t = "string" /\ calls[c].reply.value.s = "1")

\* exists has answered false to the numeric reply 1
C7_Witness ==
  \E c \in Callers :
    /\ Succeeded(c, "exists")
    /\ calls[c].reply.value = Num(1)
    /\ calls[c].outcome = Return(Bool(FALSE))

\* C8: scanDump(key, iterator) issues one BF.SCANDUMP request with the
\* arguments [key, iterator], and on the reply (it, payload) returns the pair
\* (it, payload as binary data)
C8_ScanDumpSendsKeyAndIterator ==
  \A c \in Callers :
    /\ Issued(c, "scanDump") =>
         /\ Len(calls[c].sent) = 1
         /\ RequestOf(c).command = "BF.SCANDUMP"
         /\ RequestOf(c).args = <<Str(calls[c].params.key), calls[c].params.iterator>>
    /\ (Succeeded(c, "scanDump") /\ calls[c].reply.value.items[2].t = "string") =>
         calls[c].outcome =
           Return(Arr(<<calls[c].reply.value.items[1],
                        Buf(calls[c].reply.value.items[2].s)>>))

\* C9: on the completion reply (iterator 0 with a NULL or empty payload),
\* scanDump returns (0, empty payload) and raises no error
C9_ScanCompletionIsNotAnError ==
  \A c \in Callers :
    (/\ Succeeded(c, "scanDump")
     /\ calls[c].reply.value.items[1] = Num(0)
     /\ calls[c].reply.value.items[2] \in {Null, Str("")})
    => calls[c].outcome = Return(Arr(<<Num(0), Buf("")>>))

\* the normalized name of a label of the BF.INFO reply
NormalizedLabel(label) ==
  CASE label = "Capacity" -> "CAPACITY"
    [] label = "Size" -> "SIZE"
    [] label = "Number of filters" -> "NUMBER_OF_FILTERS"
    [] label = "Number of items inserted" -> "NUMBER_OF_ITEMS"
    [] label = "Expansion rate" -> "EXPANSION_RATE"
    [] OTHER -> label

\* the mapping a flat reply [k0, v0, k1, v1, ...] stands for: each label under
\* its normalized name, with the value that follows it, 0 when that value is
\* null or absent (the last pair of a name decides)
InfoMapping(flat) ==
  LET at == {i \in 1..Len(flat) : i % 2 = 1}
      last(name) == CHOOSE i \in at :
                      /\ NormalizedLabel(flat[i].s) = name
                      /\ \A j \in at : NormalizedLabel(flat[j].s) = name => j <= i
      value(i) == IF i + 1 > Len(flat) \/ flat[i + 1] = Null THEN Num(0)
                  ELSE flat[i + 1]
  IN {<<name, value(last(name))>> : name \in {NormalizedLabel(flat[i].s) : i \in at}}

\* C10: info without an attribute issues BF.INFO [key] and returns the mapping of
\* the flat reply (labels normalized, other labels unchanged, a missing value
\* 0); info with an attribute issues BF.INFO [key, attribute] and returns the
\* reply, a bare integer
C10_InfoMapsFlatReply ==
  \A c \in Callers :
    /\ Issued(c, "info") =>
         /\ Len(calls[c].sent) = 1
         /\ RequestOf(c).command = "BF.INFO"
         /\ RequestOf(c).args =
              IF calls[c].params.attribute = Undefined
              THEN <<Str(calls[c].params.key)>>
              ELSE <<Str(calls[c].params.key), calls[c].params.attribute>>
    /\ Succeeded(c, "info") =>
         IF calls[c].params.attribute = Undefined
         THEN calls[c].outcome = Return(Obj(InfoMapping(calls[c].reply.value.items)))
         ELSE /\ calls[c].outcome = Return(calls[c].reply.value)
              /\ calls[c].outcome.value.t = "number"

\* info has mapped a reply whose expansion rate is null: all five normalized
\* names are there, EXPANSION_RATE with 0
C10_Witness ==
  \E c \in Callers :
    /\ Succeeded(c, "info")
    /\ calls[c].params.attribute = Undefined
    /\ Len(calls[c].reply.value.items) = 10
    /\ calls[c].reply.value.items[10] = Null
    /\ calls[c].outcome.value.props =
         {<<"CAPACITY", Num(1000)>>, <<"SIZE", Num(1528)>>,
          <<"NUMBER_OF_FILTERS", Num(1)>>, <<"NUMBER_OF_ITEMS", Num(3)>>,
          <<"EXPANSION_RATE", Num(0)>>}

\* the decimal text of the numbers insert is called with
Decimal(v) ==
  IF v = Frac(1, 100) THEN "0.01"
  ELSE IF v = Num(500) THEN "500"
  ELSE <<"1", "2", "3", "4", "5">>[v.n]

\* the items a, b, c, d and the flags, joined by single spaces
SpaceJoined(list) ==
  CASE list = <<>> -> ""
    [] list = <<"a">> -> "a"
    [] list = <<"a", "b">> -> "a b"
    [] list = <<"a", "b", "c">> -> "a b c"
    [] list = <<"a", "b", "c", "d">> -> "a b c d"
    [] list = <<"NOCREATE">> -> "NOCREATE"
    [] list = <<"NOCREATE", "NONSCALING">> -> "NOCREATE NONSCALING"

\* NAME and the value's text when the option is provided, nothing otherwise
OptionTokens(name, v) ==
  IF v = Undefined THEN <<>> ELSE <<Str(name), Str(Decimal(v))>>

C12_MultiCommandsSpreadItems ==
  \A c \in DOMAIN calls :
    /\ (Issued(c, "mAdd") \/ Issued(c, "mExists")) =>
         LET items == calls[c].params.items.items
             args == RequestOf(c).args
         IN /\ Len(calls[c].sent) = 1
            /\ RequestOf(c).command =
                 (IF calls[c].op = "mAdd" THEN "BF.MADD" ELSE "BF.MEXISTS")
            /\ Len(args) = Len(items) + 1
            /\ args[1] = Str(calls[c].params.key)
            /\ \A k \in 1..Len(items) : args[k + 1] = Str(items[k])
    /\ (Succeeded(c, "mAdd") \/ Succeeded(c, "mExists")) =>
         calls[c].outcome = Return(calls[c].reply.value)

\* mAdd("users", ["a", "b"]) has issued ["users", "a", "b"] and returned the two
\* integers of the reply in their order
C12_Witness ==
  \E c \in DOMAIN calls :
    /\ Succeeded(c, "mAdd")
    /\ RequestOf(c).args = <<Str("users"), Str("a"), Str("b")>>
    /\ calls[c].reply.value = Arr(<<Num(0), Num(1)>>)
    /\ calls[c].outcome = Return(Arr(<<Num(0), Num(1)>>))

\* the options hold neither a client nor connection parameters
NeitherSupplied == ~Truthy(options.client) /\ ~Truthy(options.connection)

\* C13: with neither a client nor connection parameters the constructor throws
\* BloomFilterInstallationException: no client is built, the service never
\* becomes usable and no request is issued
C13_NoConnectionDescriptionFailsConstruction ==
  NeitherSupplied =>
    /\ service \in {"unconstructed", "failed"}
    /\ service = "failed" => thrown.name = "BloomFilterInstallationException"
    /\ built = <<>>
    /\ ~Truthy(config.client)
    /\ \A c \in DOMAIN calls : calls[c].pc = "idle"

\* the constructor has thrown on options with neither
C13_Witness ==
  /\ NeitherSupplied
  /\ service = "failed"
  /\ thrown.name = "BloomFilterInstallationException"
  /\ built = <<>>

\* the one transport handle the options stand for: the supplied client, or
\* else the first client built, from the connection parameters with host
\* "127.0.0.1" and port 6379 where they are absent
TheHandle ==
  IF options.client # Undefined THEN options.client
  ELSE [t |-> "Redis", id |-> "built", n |-> 1,
        host |-> IF options.connection.host = Undefined THEN Str("127.0.0.1")
                 ELSE options.connection.host,
        port |-> IF options.connection.port = Undefined THEN Num(6379)
                 ELSE options.connection.port]

\* C14: a constructed service holds one transport handle, the supplied client
\* (no client is built then, connection parameters or not) or else the one
\* client built from the connection parameters and their defaults, and every
\* request of every operation goes to that handle
C14_OneHandleForAllRequests ==
  /\ service # "ready" => built = <<>>
  /\ service = "ready" =>
       /\ config.client = TheHandle
       /\ built = (IF options.client # Undefined THEN <<>> ELSE <<TheHandle>>)
       /\ \A c \in DOMAIN calls :
            calls[c].pc # "idle" =>
              \A i \in DOMAIN calls[c].sent : calls[c].sent[i].client = TheHandle

\* built from connection parameters without host and port, the one client is at
\* 127.0.0.1:6379 and a completed call has used it
C14_Witness ==
  \E c \in DOMAIN calls :
    /\ options.client = Undefined
    /\ options.connection # Undefined
    /\ options.connection.host = Undefined
    /\ calls[c].pc = "done"
    /\ Len(built) = 1
    /\ built[1].host = Str("127.0.0.1") /\ built[1].port = Num(6379)
    /\ RequestOf(c).client = built[1]

\* C15: a call of a public operation issues exactly one request, from its start
\* to its end, whether the request succeeds or fails: no second request, no
\* retry of a failed one
C15_OneRequestPerCall ==
  \A c \in DOMAIN calls :
    calls[c].pc \in {"pending", "done"} =>
      /\ Len(calls[c].sent) = 1
      /\ RequestOf(c).command \in
           {"BF.ADD", "BF.CARD", "BF.EXISTS", "BF.INFO", "BF.INSERT", "BF.LOADCHUNK",
            "BF.MADD", "BF.MEXISTS", "BF.RESERVE", "BF.SCANDUMP", "PING"}

\* info has ended with an error after a failed BF.INFO, with one request issued
C15_Witness ==
  \E c \in DOMAIN calls :
    /\ Failed(c, "info")
    /\ calls[c].outcome.kind = "throw"
    /\ Len(calls[c].sent) = 1

\* caller c can start a call now
CanStart(c) ==
  /\ ENABLED add(c) /\ ENABLED card(c) /\ ENABLED exists(c) /\ ENABLED info(c)
  /\ ENABLED insert(c) /\ ENABLED loadChunk(c) /\ ENABLED mAdd(c)
  /\ ENABLED mExists(c) /\ ENABLED reserve(c) /\ ENABLED scanDump(c)
  /\ ENABLED isConnected(c)

\* in every state: two calls with the same operation and parameters have sent
\* the same request, and with the same reply too have the same outcome; an
\* idle caller can start any operation and a pending call can resume, whatever
\* the other calls are doing
CallsAreIndependent ==
  /\ \A c1, c2 \in DOMAIN calls :
       (/\ c1 # c2
        /\ calls[c1].pc # "idle" /\ calls[c2].pc # "idle"
        /\ calls[c1].op = calls[c2].op
        /\ calls[c1].params = calls[c2].params)
       => /\ calls[c1].sent = calls[c2].sent
          /\ (/\ calls[c1].pc = "done" /\ calls[c2].pc = "done"
              /\ calls[c1].reply = calls[c2].reply)
             => calls[c1].outcome = calls[c2].outcome
  /\ \A c \in DOMAIN calls :
       /\ (service = "ready" /\ calls[c].pc = "idle") => CanStart(c)
       /\ calls[c].pc = "pending" => (ENABLED Resolve(c) /\ ENABLED Reject(c))

\* in every step: what one call does leaves every other call as it was, and
\* the client of the service too
StepsTouchOneCall ==
  /\ \A c1, c2 \in DOMAIN calls :
       (c1 # c2 /\ calls'[c1] # calls[c1]) => calls'[c2] = calls[c2]
  /\ service = "ready" => config' = config

\* C16: with several calls in flight on one service instance, in any
\* interleaving, a call's request depends on its own parameters only and its
\* outcome on its own reply only; no call reads or writes what another call
\* wrote, and no call waits for another before it issues its request
C16_ConcurrentCallsAreIndependent ==
  []CallsAreIndependent /\ [][StepsTouchOneCall]_vars

\* two calls of reserve are in flight at once, for different keys, each with
\* its own key in its request
C16_Witness ==
  /\ DOMAIN calls = ConcurrentCallers
  /\ calls["c1"].pc = "pending" /\ calls["c2"].pc = "pending"
  /\ calls["c1"].op = "reserve" /\ calls["c2"].op = "reserve"
  /\ calls["c1"].params.key = "users" /\ calls["c2"].params.key = "orders"
  /\ calls["c1"].sent[1].args[1] = Str("users")
  /\ calls["c2"].sent[1].args[1] = Str("orders")

====
